---- MODULE Spec2Model ----
(***************************************************************************)
(* ConTima Data Lab: the upload / analyze / chat workflow of App, the      *)
(* analyzeFiles and initializeChat services, readFileAsText and the        *)
(* ChatInterface component, as one state machine.                          *)
(*                                                                         *)
(* JavaScript runs each event handler and the promise continuations it     *)
(* wakes to completion before the next event, so an action is one handler  *)
(* or one continuation (the code between two awaits).                      *)
(***************************************************************************)
EXTENDS Integers, Sequences, FiniteSets, TLC

VARIABLES
    \* process.env.API_KEY is set (fixed for the life of the page)
    apiKey,
    \* ---- App (useState) ----
    files, fileDataList, appState, analysisData, errorMsg,
    \* pending handleAnalyze invocations, and the generateContent calls issued
    procs, genCalls,
    \* ---- ChatInterface (useState, useRef) ----
    messages, input, isInitializing, isTyping, chatSessionRef,
    \* the chat sessions created: for each, what became of its seed message
    \* (pending, accepted, failed) and the sendMessageStream calls made on it
    sessions,
    \* the locals of the handleSend invocation in flight
    turn,
    \* the last value read from Date.now(); a reading is never less than the
    \* one before
    now,
    \* runs of the init effect
    initRuns,
    \* ---- analyzeFiles, on its own ----
    \* the parsed model response handed to the normalization, and what each
    \* application of it returned: the first on the response, the next on the
    \* result before
    normInput, normOutput,
    \* ---- the services, called on their own ----
    \* the File objects read, the promise of readFileAsText for each, and what
    \* analyzeFiles and initializeChat did up to their model request
    svcFiles, svcData, svcAnalyze, svcChat,
    \* the handler or continuation that ran last
    lastOp

appVars == <<files, fileDataList, appState, analysisData, errorMsg, procs, genCalls>>

chatVars == <<messages, input, isInitializing, isTyping, chatSessionRef, sessions,
              turn, now, initRuns>>

normVars == <<normInput, normOutput>>

svcVars == <<svcFiles, svcData, svcAnalyze, svcChat>>

(***************************************************************************)
(* Bounds of the model.                                                    *)
(***************************************************************************)
\* handleAnalyze invocations in one behaviour
MaxAnalyses == 2
\* entries of the selected-file list
MaxFiles == 3
\* chat turns of one ChatInterface that can end before the last send
MaxSends == 1
\* characters of the text of one model stream
MaxText == 1
\* runs of the init effect of one ChatInterface
MaxInits == 1
\* the last value of the clock, which starts at 1
MaxClock == 2
\* entries of the series of one data point
MaxSeries == 2
\* data points of one chart
MaxPoints == 1
\* applications of the chart transform to one response
MaxPasses == 2

(***************************************************************************)
(* JavaScript values. A value carries its type, so that values of          *)
(* different types compare unequal instead of being incomparable.          *)
(***************************************************************************)
Null == [t |-> "null"]
Undefined == [t |-> "undefined"]
Str(s) == [t |-> "string", v |-> s]
Num(n) == [t |-> "number", v |-> n]
Arr(seq) == [t |-> "array", v |-> seq]
Obj(o) == [t |-> "object", v |-> o]

\* Array.isArray(x)
IsArray(x) == x.t = "array"

\* the truthiness of a value, as in `x && ...`, `x || ...`, `if (x)`
Truthy(x) ==
    CASE x.t = "null" -> FALSE
      [] x.t = "undefined" -> FALSE
      [] x.t = "string" -> x.v # ""
      [] x.t = "number" -> x.v # 0
      [] OTHER -> TRUE

\* o.key for an object o: undefined when the object has no such property
Get(o, key) == IF key \in DOMAIN o THEN o[key] ELSE Undefined

\* { ...o, [key]: val } and o[key] = val
Put(o, key, val) == [k \in DOMAIN o \cup {key} |-> IF k = key THEN val ELSE o[k]]

\* {} : the object with no property
EmptyObject == [k \in {} |-> Undefined]

(***************************************************************************)
(* types.ts                                                                *)
(***************************************************************************)
AppStates == {"IDLE", "ANALYZING", "COMPLETE", "ERROR"}

\* the required members of AnalysisResult
RequiredFields == {"filesDetected", "combinedStrategicInsights", "recommendations"}

(***************************************************************************)
(* utils/fileUtils.ts                                                      *)
(***************************************************************************)
MAX_CHARS == 150000

TruncationMarker == "\n...[TRUNCATED]"

\* a truncation that already cuts a text of MAX_CHARS characters
TruncatedContentAtBound(len) ==
    IF len >= MAX_CHARS
    THEN [chars |-> MAX_CHARS, marker |-> TRUE]
    ELSE [chars |-> len, marker |-> FALSE]

\* A File is [name, len]: its name and the length of its decoded text. The
\* text of a file read is [chars, marker]: how many leading characters of the
\* file it holds, and whether the truncation marker follows them.
TruncatedContent(len) ==
    IF len > MAX_CHARS
    THEN [chars |-> MAX_CHARS, marker |-> TRUE]
    ELSE [chars |-> len, marker |-> FALSE]

\* the event a FileReader ends with: "load" or "error"
ReaderEvents == {"load", "error"}

\* the ProgressEvent of reader.onerror: an object without a `message`
ProgressEvent == [type |-> "error"]

\* readFileAsText with a reader.onerror that resolves with empty content
readFileAsTextEmptyOnError(file, event) ==
    [status |-> "fulfilled",
     value |-> [name |-> file.name,
                content |-> TruncatedContent(IF event = "load" THEN file.len ELSE 0),
                size |-> file.len]]

\* the promise of readFileAsText(file), settled by the reader's event
readFileAsText(file, event) ==
    IF event = "load"
    THEN [status |-> "fulfilled",
          value |-> [name |-> file.name,
                     content |-> TruncatedContent(file.len),
                     size |-> file.len]]
    ELSE [status |-> "rejected", reason |-> ProgressEvent]

Pending == [status |-> "pending"]

(***************************************************************************)
(* Errors, and the promises of the model client.                           *)
(***************************************************************************)
\* new Error(message)
ErrorOf(message) == [message |-> message]

ApiKeyMissingAnalyze == "API Key is missing. Please set the API_KEY environment variable."

NoResponseText == "No response from Gemini"

ApiKeyMissingChat == "API Key is missing."

\* the first statement of analyzeFiles: it throws when the key is not set
analyzeFilesKeyCheck ==
    IF apiKey THEN [ok |-> TRUE] ELSE [ok |-> FALSE, error |-> ErrorOf(ApiKeyMissingAnalyze)]

\* an initializeChat that goes on without the key
initializeChatNoKeyCheck == [ok |-> TRUE]

\* the first statement of initializeChat: it throws when the key is not set
initializeChatKeyCheck ==
    IF apiKey THEN [ok |-> TRUE] ELSE [ok |-> FALSE, error |-> ErrorOf(ApiKeyMissingChat)]

\* The pieces promptText is put together from: a fixed text, the delimiter
\* line `--- FILE ${index + 1}: ${file.name} ---\n`, and a file's content.
PromptHeading == [kind |-> "text", v |-> "Analyze the following CSV files:\n\n"]
PromptClosing ==
    [kind |-> "text", v |-> "\nProvide a detailed analysis following the ConTima structure."]
BlankLine == [kind |-> "text", v |-> "\n\n"]
Delimiter(number, name) == [kind |-> "delimiter", number |-> number, name |-> name]
ContentPiece(content) == [kind |-> "content", v |-> content]

RECURSIVE FileParts(_, _)
\* what files.forEach((file, index) => ...) adds to promptText from `index` on
FileParts(fileData, index) ==
    IF index >= Len(fileData)
    THEN <<>>
    ELSE <<Delimiter(index + 1, fileData[index + 1].name),
           ContentPiece(fileData[index + 1].content), BlankLine>>
         \o FileParts(fileData, index + 1)

\* a prompt whose delimiter lines carry the index as forEach counts it
promptTextFromZero(fileData) ==
    <<PromptHeading>>
        \o [i \in 1..Len(FileParts(fileData, 0)) |->
               IF FileParts(fileData, 0)[i].kind = "delimiter"
               THEN [FileParts(fileData, 0)[i] EXCEPT !.number = @ - 1]
               ELSE FileParts(fileData, 0)[i]]
        \o <<PromptClosing>>

\* promptText, as analyzeFiles hands it to generateContent
promptText(fileData) == <<PromptHeading>> \o FileParts(fileData, 0) \o <<PromptClosing>>

AnalysisFallbackText == "An unexpected error occurred during analysis."

\* err.message || "An unexpected error occurred during analysis."
ErrorMessageOrFallback(err) ==
    IF "message" \in DOMAIN err /\ err.message # ""
    THEN err.message
    ELSE AnalysisFallbackText

\* The text of a model response: the empty text, a text that is no JSON
\* document, or the JSON document of a value.
EmptyText == [kind |-> "empty"]
NotJson == [kind |-> "garbage"]
JsonOf(value) == [kind |-> "json", value |-> value]

\* JSON.parse(text): the value, or a SyntaxError
JSONparse(text) ==
    IF text.kind = "json"
    THEN [ok |-> TRUE, value |-> text.value]
    ELSE [ok |-> FALSE, error |-> ErrorOf("Unexpected token in JSON")]

(***************************************************************************)
(* services/geminiService.ts: analyzeFiles, after the model call.          *)
(***************************************************************************)
\* x.key for a value x that is an object
Prop(x, key) == Get(x.v, key)

\* null or undefined: what `?.` stops at
Nullish(x) == x.t \in {"null", "undefined"}

\* the property name a value stands for in { [value]: ... } and o[value]
KeyOf(x) ==
    CASE x.t = "string" -> x.v
      [] x.t = "number" -> ToString(x.v)
      [] x.t = "undefined" -> "undefined"
      [] x.t = "null" -> "null"
      [] OTHER -> "[object Object]"

RECURSIVE AddSeries(_, _)
\* item.series.forEach(s => { dataPoint[s.key] = s.value })
AddSeries(dataPoint, series) ==
    IF series = <<>>
    THEN dataPoint
    ELSE AddSeries(Put(dataPoint, KeyOf(Prop(Head(series), "key")),
                       Prop(Head(series), "value")),
                   Tail(series))

\* a flattening that names the category field "name" whatever the chart's
\* xAxisKey
FlattenPointUnderName(chart, item) ==
    LET dataPoint == Put(EmptyObject, "name", Prop(item, "name"))
        series == Prop(item, "series")
    IN  Obj(IF Truthy(series) /\ IsArray(series)
            THEN AddSeries(dataPoint, series.v)
            ELSE dataPoint)

\* one data point of a chart, flattened
FlattenPoint(chart, item) ==
    LET dataPoint == Put(EmptyObject, KeyOf(Prop(chart, "xAxisKey")), Prop(item, "name"))
        series == Prop(item, "series")
    IN  Obj(IF Truthy(series) /\ IsArray(series)
            THEN AddSeries(dataPoint, series.v)
            ELSE dataPoint)

\* chart.data?.map(...) throws a TypeError: data is there and has no map
ChartThrows(chart) == ~Nullish(Prop(chart, "data")) /\ ~IsArray(Prop(chart, "data"))

\* a chart rebuilt from its data alone, without the spread of its fields
FlattenChartDataOnly(chart) ==
    LET data == Prop(chart, "data")
        flatData == IF Nullish(data)
                    THEN <<>>
                    ELSE [i \in 1..Len(data.v) |-> FlattenPoint(chart, data.v[i])]
    IN  Obj(Put(EmptyObject, "data", Arr(flatData)))

\* { ...chart, data: flatData }
FlattenChart(chart) ==
    LET data == Prop(chart, "data")
        flatData == IF Nullish(data)
                    THEN <<>>
                    ELSE [i \in 1..Len(data.v) |-> FlattenPoint(chart, data.v[i])]
    IN  Obj(Put(chart.v, "data", Arr(flatData)))

\* the charts of a parsed response are an array to transform
HasChartsArray(result) ==
    /\ result.t = "object"
    /\ Truthy(Prop(result, "charts"))
    /\ IsArray(Prop(result, "charts"))

\* the transform of result.charts, on a result it does not throw on
FlattenCharts(result) ==
    IF HasChartsArray(result)
    THEN LET charts == Prop(result, "charts").v
         IN  Obj(Put(result.v, "charts",
                     Arr([i \in 1..Len(charts) |-> FlattenChart(charts[i])])))
    ELSE result

\* reading result.charts, or transforming a chart, throws a TypeError
NormalizeThrows(result) ==
    \/ Nullish(result)
    \/ /\ HasChartsArray(result)
       /\ \E i \in 1..Len(Prop(result, "charts").v) :
              ChartThrows(Prop(result, "charts").v[i])

\* What the promise of analyzeFiles settles with, given what generateContent
\* settled with: the try block from `const text = response.text` on, and
\* the catch that rethrows.
analyzeFilesResult(outcome) ==
    IF outcome.status = "rejected"
    THEN [ok |-> FALSE, error |-> outcome.reason]
    ELSE LET text == outcome.value.text
             parsed == JSONparse(text)
         IN  IF text.kind = "empty"
             THEN [ok |-> FALSE, error |-> ErrorOf(NoResponseText)]
             ELSE IF ~parsed.ok
             THEN [ok |-> FALSE, error |-> parsed.error]
             ELSE IF NormalizeThrows(parsed.value)
             THEN [ok |-> FALSE, error |-> ErrorOf("Cannot read properties")]
             ELSE [ok |-> TRUE, value |-> FlattenCharts(parsed.value)]

(***************************************************************************)
(* App.tsx                                                                 *)
(***************************************************************************)
\* The File objects a user can pick. Two of them share a name.
FilePool ==
    { [name |-> "a.csv", len |-> 10], [name |-> "a.csv", len |-> 20],
      [name |-> "b.csv", len |-> 10], [name |-> "c.csv", len |-> 10],
      [name |-> "d.csv", len |-> 10] }

\* What one change event of the file input can carry: one or two
\* distinct File objects
Selections ==
    { <<f>> : f \in FilePool }
    \cup { s \in { <<f, g>> : f, g \in FilePool } : s[1] # s[2] }

\* The selections of the analysis workflow: files of two names
WorkflowSelections ==
    LET a == [name |-> "a.csv", len |-> 10]
        b == [name |-> "b.csv", len |-> 10]
    IN  { <<a>>, <<a, b>> }

\* What generateContent can settle with in the workflow
FullResult ==
    Obj([filesDetected |-> Arr(<<>>), combinedStrategicInsights |-> Str("insights"),
         recommendations |-> Arr(<<>>)])

PartialResult == Obj([filesDetected |-> Arr(<<>>), charts |-> Arr(<<>>)])

ModelOutcomes ==
    { [status |-> "rejected", reason |-> ErrorOf("quota exceeded")],
      [status |-> "fulfilled", value |-> [text |-> NotJson]],
      [status |-> "fulfilled", value |-> [text |-> JsonOf(FullResult)]],
      [status |-> "fulfilled", value |-> [text |-> JsonOf(PartialResult)]] }

\* a handleAnalyze invocation that has not been made, or has returned
NoProc == [pc |-> "none", files |-> <<>>, reads |-> <<>>, stale |-> FALSE]

\* lastOp: the continuation that ran last and the event that woke it. A
\* handler the user starts leaves only UserOp: what it did shows in the state.
\* n counts the reads of the invocation that were fulfilled before the event,
\* and for a fragment of a stream the characters of its text. For
\* ModelSettles, arg is the message of the error analyzeFiles threw, if any.
Op(name, arg, n) == [op |-> name, arg |-> arg, n |-> n]

UserOp == Op("user", "", 0)

\* prev.filter(f => !existingNames.has(f.name)) over the new files
RECURSIVE FilterNew(_, _)
FilterNew(existingNames, newFiles) ==
    IF newFiles = <<>>
    THEN <<>>
    ELSE (IF Head(newFiles).name \in existingNames THEN <<>> ELSE <<Head(newFiles)>>)
         \o FilterNew(existingNames, Tail(newFiles))

\* the updater handleFilesSelected gives setFiles
AppendNewFiles(prev, newFiles) ==
    LET existingNames == { prev[i].name : i \in 1..Len(prev) }
    IN  prev \o FilterNew(existingNames, newFiles)

\* prev.filter((_, i) => i !== index), index counted from 0
RECURSIVE RemoveAt(_, _)
RemoveAt(prev, index) ==
    IF prev = <<>>
    THEN <<>>
    ELSE (IF index = 0 THEN <<>> ELSE <<Head(prev)>>) \o RemoveAt(Tail(prev), index - 1)

\* FileUpload is rendered in the IDLE state only, and passes on a change
\* event that carries at least one file.
handleFilesSelected(newFiles) ==
    /\ appState = "IDLE"
    /\ newFiles # <<>>
    /\ Len(AppendNewFiles(files, newFiles)) <= MaxFiles
    /\ files' = AppendNewFiles(files, newFiles)
    /\ errorMsg' = Null
    /\ lastOp' = UserOp
    /\ UNCHANGED <<apiKey, fileDataList, appState, analysisData, procs, genCalls>>
    /\ UNCHANGED <<chatVars, normVars, svcVars>>

\* the remove button of the entry at `index`
handleRemoveFile(index) ==
    /\ appState = "IDLE"
    /\ index \in 0..(Len(files) - 1)
    /\ files' = RemoveAt(files, index)
    /\ lastOp' = UserOp
    /\ UNCHANGED <<apiKey, fileDataList, appState, analysisData, errorMsg, procs, genCalls>>
    /\ UNCHANGED <<chatVars, normVars, svcVars>>

\* Promise.all over the reads: rejected with the first rejection, fulfilled
\* with every value once all are fulfilled.
PromiseAll(reads) ==
    IF \E k \in 1..Len(reads) : reads[k].status = "rejected"
    THEN [status |-> "rejected",
          reason |-> reads[CHOOSE k \in 1..Len(reads) : reads[k].status = "rejected"].reason]
    ELSE IF \A k \in 1..Len(reads) : reads[k].status = "fulfilled"
    THEN [status |-> "fulfilled", value |-> [k \in 1..Len(reads) |-> reads[k].value]]
    ELSE Pending

\* handleAnalyze up to its first await: the reads are started
handleAnalyze(p) ==
    /\ appState = "IDLE"
    /\ Len(files) # 0
    /\ p \in 1..MaxAnalyses
    /\ procs[p].pc = "none"
    /\ \A q \in 1..(p - 1) : procs[q].pc # "none"
    /\ appState' = "ANALYZING"
    /\ errorMsg' = Null
    /\ procs' = [procs EXCEPT ![p] =
                    [pc |-> "reading", files |-> files,
                     reads |-> [k \in 1..Len(files) |-> Pending], stale |-> FALSE]]
    /\ lastOp' = UserOp
    /\ UNCHANGED <<apiKey, files, fileDataList, analysisData, genCalls>>
    /\ UNCHANGED <<chatVars, normVars, svcVars>>

\* the texts ChatInterface puts into messages of its own
WelcomeText == <<"I've reviewed your files and the report. [...] What would you like to know?">>

InitErrorText == <<"I'm sorry, I couldn't connect to the analysis engine. Please try refreshing the page.">>

ChatErrorText == <<"I encountered an error processing your request. Please try again.">>

\* App renders ChatInterface in the COMPLETE state with a result
ChatMounted == appState = "COMPLETE" /\ analysisData # Null

\* The body of init, up to its await: setIsInitializing(true) and the call of
\* initializeChat, which without the key throws at once, so that init goes to
\* its catch and finally, and with it creates the chat and sends the seed.
RunInit ==
    /\ initRuns' = initRuns + 1
    /\ IF initializeChatKeyCheck.ok
       THEN /\ sessions' = Append(sessions, [seed |-> "pending", sent |-> 0])
            /\ isInitializing' = TRUE
            /\ UNCHANGED messages
       ELSE /\ messages' = <<[id |-> "error", role |-> "model", text |-> InitErrorText,
                              isStreaming |-> "undefined"]>>
            /\ isInitializing' = FALSE
            /\ UNCHANGED sessions

\* What the render after a handler of App does to ChatInterface: it is
\* unmounted, and its state lost, when the condition of its rendering is
\* gone; its init effect runs when it is mounted, and when it stays mounted
\* and the handler has set fileDataList or analysisData (propsSet), which
\* are its `files` and `analysisData` props and the effect's dependencies.
ChatRender(propsSet) ==
    IF ~(appState' = "COMPLETE" /\ analysisData' # Null)
    THEN /\ messages' = <<>>
         /\ input' = <<>>
         /\ isInitializing' = TRUE
         /\ isTyping' = FALSE
         /\ chatSessionRef' = 0
         /\ sessions' = <<>>
         /\ turn' = [pc |-> "idle", botMessageId |-> "", fullText |-> <<>>]
         /\ initRuns' = 0
         /\ UNCHANGED now
    ELSE IF ~ChatMounted \/ propsSet
    THEN /\ RunInit
         /\ UNCHANGED <<input, isTyping, chatSessionRef, turn, now>>
    ELSE UNCHANGED chatVars

\* the catch block of handleAnalyze, which ends the invocation
Catch(p, err) ==
    /\ appState' = "ERROR"
    /\ errorMsg' = Str(ErrorMessageOrFallback(err))
    /\ procs' = [procs EXCEPT ![p] = [NoProc EXCEPT !.pc = "done"]]

\* One reader of invocation p ends. When that settles Promise.all,
\* handleAnalyze goes on: to its catch, or to setFileDataList and into
\* analyzeFiles, which throws without the key and else issues the model call.
ReaderSettles(p, k, event) ==
    /\ procs[p].pc = "reading"
    /\ k \in 1..Len(procs[p].reads)
    /\ procs[p].reads[k].status = "pending"
    /\ lastOp' = Op("ReaderSettles", event,
                    Cardinality({ j \in 1..Len(procs[p].reads) :
                                    procs[p].reads[j].status = "fulfilled" }))
    /\ LET reads == [procs[p].reads EXCEPT ![k] = readFileAsText(procs[p].files[k], event)]
           all == PromiseAll(reads)
       IN  CASE all.status = "pending" ->
                  /\ procs' = [procs EXCEPT ![p].reads = reads]
                  /\ UNCHANGED <<fileDataList, appState, analysisData, errorMsg, genCalls>>
             [] all.status = "rejected" ->
                  /\ Catch(p, all.reason)
                  /\ UNCHANGED <<fileDataList, analysisData, genCalls>>
             [] all.status = "fulfilled" /\ ~analyzeFilesKeyCheck.ok ->
                  /\ fileDataList' = all.value
                  /\ Catch(p, analyzeFilesKeyCheck.error)
                  /\ UNCHANGED <<analysisData, genCalls>>
             [] all.status = "fulfilled" /\ analyzeFilesKeyCheck.ok ->
                  /\ fileDataList' = all.value
                  /\ genCalls' = genCalls + 1
                  /\ procs' = [procs EXCEPT ![p].reads = reads, ![p].pc = "calling"]
                  /\ UNCHANGED <<appState, analysisData, errorMsg>>
    /\ ChatRender(PromiseAll([procs[p].reads EXCEPT
                                 ![k] = readFileAsText(procs[p].files[k], event)]).status
                      = "fulfilled")
    /\ UNCHANGED <<apiKey, files, normVars, svcVars>>

\* generateContent settles: analyzeFiles returns or throws, and handleAnalyze
\* stores the result or goes to its catch.
ModelSettles(p, outcome) ==
    /\ procs[p].pc = "calling"
    /\ lastOp' = Op("ModelSettles",
                    IF analyzeFilesResult(outcome).ok
                    THEN ""
                    ELSE analyzeFilesResult(outcome).error.message, 0)
    /\ LET r == analyzeFilesResult(outcome)
       IN  IF r.ok
           THEN /\ analysisData' = r.value
                /\ appState' = "COMPLETE"
                /\ procs' = [procs EXCEPT ![p] = [NoProc EXCEPT !.pc = "done"]]
                /\ UNCHANGED errorMsg
           ELSE /\ Catch(p, r.error)
                /\ UNCHANGED analysisData
    /\ ChatRender(analyzeFilesResult(outcome).ok)
    /\ UNCHANGED <<apiKey, files, fileDataList, genCalls, normVars, svcVars>>

\* The header and "Start New Analysis". An invocation of handleAnalyze that
\* is pending at a reset is marked stale; the mark is read by no action.
resetAnalysis ==
    /\ appState' = "IDLE"
    /\ analysisData' = Null
    /\ files' = <<>>
    /\ fileDataList' = <<>>
    /\ procs' = [p \in DOMAIN procs |->
                    IF procs[p].pc \in {"reading", "calling"}
                    THEN [procs[p] EXCEPT !.stale = TRUE]
                    ELSE procs[p]]
    /\ lastOp' = UserOp
    /\ ChatRender(FALSE)
    /\ UNCHANGED <<apiKey, errorMsg, genCalls, normVars, svcVars>>

\* "Try Again", rendered in the ERROR state
TryAgain ==
    /\ appState = "ERROR"
    /\ appState' = "IDLE"
    /\ lastOp' = UserOp
    /\ UNCHANGED <<apiKey, files, fileDataList, analysisData, errorMsg, procs, genCalls>>
    /\ UNCHANGED <<chatVars, normVars, svcVars>>

\* ChatInterface before it is mounted: the initial values of its state
ChatUnmounted ==
    /\ messages = <<>>
    /\ input = <<>>
    /\ isInitializing = TRUE
    /\ isTyping = FALSE
    /\ chatSessionRef = 0
    /\ sessions = <<>>
    /\ turn = [pc |-> "idle", botMessageId |-> "", fullText |-> <<>>]
    /\ now = 1
    /\ initRuns = 0

\* no response is being normalized, and no service called, on its own
NormIdle ==
    /\ normInput = Null
    /\ normOutput = <<>>
    /\ svcFiles = <<>>
    /\ svcData = <<>>
    /\ svcAnalyze = Null
    /\ svcChat = Null

AppInit ==
    /\ apiKey \in BOOLEAN
    /\ ChatUnmounted
    /\ NormIdle
    /\ files = <<>>
    /\ fileDataList = <<>>
    /\ appState = "IDLE"
    /\ analysisData = Null
    /\ errorMsg = Null
    /\ procs = [p \in 1..MaxAnalyses |-> NoProc]
    /\ genCalls = 0
    /\ lastOp = Op("init", "", 0)

AppNext ==
    \/ \E newFiles \in WorkflowSelections : handleFilesSelected(newFiles)
    \/ \E index \in 0..(MaxFiles - 1) : handleRemoveFile(index)
    \/ \E p \in 1..MaxAnalyses : handleAnalyze(p)
    \/ \E p \in 1..MaxAnalyses, k \in 1..MaxFiles, event \in ReaderEvents :
          ReaderSettles(p, k, event)
    \/ \E p \in 1..MaxAnalyses, outcome \in ModelOutcomes : ModelSettles(p, outcome)
    \/ resetAnalysis
    \/ TryAgain

vars == <<apiKey, files, fileDataList, appState, analysisData, errorMsg, procs, genCalls,
          messages, input, isInitializing, isTyping, chatSessionRef, sessions,
          turn, now, initRuns, normInput, normOutput,
          svcFiles, svcData, svcAnalyze, svcChat, lastOp>>

Spec == AppInit /\ [][AppNext]_vars

\* The selected-file list alone, over every selection of the pool
FilesNext ==
    \/ \E newFiles \in Selections : handleFilesSelected(newFiles)
    \/ \E index \in 0..(MaxFiles - 1) : handleRemoveFile(index)
    \/ resetAnalysis

SpecFiles == AppInit /\ [][FilesNext]_vars

(***************************************************************************)
(* services/geminiService.ts: initializeChat.                              *)
(***************************************************************************)
\* initializeChat that returns the chat without waiting for the seed's fate
initializeChatNoAwait(seed) == [ok |-> TRUE]

\* What the promise of initializeChat settles with, given what the seed
\* sendMessage settled with: `await chat.sendMessage(...)`, then `return chat`.
initializeChatResult(seed) ==
    IF seed = "accepted" THEN [ok |-> TRUE] ELSE [ok |-> FALSE]

(***************************************************************************)
(* components/ChatInterface.tsx                                            *)
(*                                                                         *)
(* A text is the sequence of its characters. A message id is a string: the *)
(* decimal digits of a clock value, "welcome" or "error".                  *)
(***************************************************************************)
\* lastOp after a step of the chat that no claim needs told apart
ChatOp == Op("chat", "", 0)

\* what the user can have typed
Inputs == { <<" ">>, <<" ", "q">> }

\* the text of one fragment of a stream; a fragment can be empty
Chunks == { <<>>, <<"a">> }

NoTurn == [pc |-> "idle", botMessageId |-> "", fullText |-> <<>>]

RECURSIVE TrimStart(_)
TrimStart(text) ==
    IF text # <<>> /\ Head(text) = " " THEN TrimStart(Tail(text)) ELSE text

RECURSIVE TrimEnd(_)
TrimEnd(text) ==
    IF text # <<>> /\ text[Len(text)] = " "
    THEN TrimEnd(SubSeq(text, 1, Len(text) - 1))
    ELSE text

\* input.trim()
Trim(text) == TrimEnd(TrimStart(text))

\* an update of the text that also settles the message
WithTextSettling(prev, id, fullText) ==
    [i \in 1..Len(prev) |->
        IF prev[i].id = id
        THEN [prev[i] EXCEPT !.text = fullText, !.isStreaming = "false"]
        ELSE prev[i]]

\* prev.map(msg => msg.id === id ? { ...msg, text: fullText } : msg)
WithText(prev, id, fullText) ==
    [i \in 1..Len(prev) |->
        IF prev[i].id = id THEN [prev[i] EXCEPT !.text = fullText] ELSE prev[i]]

\* prev.map(msg => msg.id === id ? { ...msg, isStreaming: false } : msg)
WithStreamingCleared(prev, id) ==
    [i \in 1..Len(prev) |->
        IF prev[i].id = id THEN [prev[i] EXCEPT !.isStreaming = "false"] ELSE prev[i]]

\* The init effect of a ChatInterface on its own: it runs on mount, and
\* again whenever the `files` or the `analysisData` prop is another object.
InitEffect ==
    /\ initRuns < MaxInits
    /\ RunInit
    /\ lastOp' = ChatOp
    /\ UNCHANGED <<input, isTyping, chatSessionRef, turn, now>>
    /\ UNCHANGED <<apiKey, appVars, normVars, svcVars>>

\* The seed sendMessage of session s settles, and init goes on after its
\* await: the session is stored and the welcome message set, or the catch
\* sets the error message; finally isInitializing is cleared.
SeedSettles(s, seed) ==
    /\ s \in 1..Len(sessions)
    /\ sessions[s].seed = "pending"
    /\ sessions' = [sessions EXCEPT ![s].seed = seed]
    /\ IF initializeChatResult(seed).ok
       THEN /\ chatSessionRef' = s
            /\ messages' = <<[id |-> "welcome", role |-> "model", text |-> WelcomeText,
                              isStreaming |-> "undefined"]>>
       ELSE /\ messages' = <<[id |-> "error", role |-> "model", text |-> InitErrorText,
                              isStreaming |-> "undefined"]>>
            /\ UNCHANGED chatSessionRef
    /\ isInitializing' = FALSE
    /\ lastOp' = ChatOp
    /\ UNCHANGED <<input, isTyping, turn, now, initRuns>>
    /\ UNCHANGED <<apiKey, appVars, normVars, svcVars>>

\* onChange of the input
SetInput(value) ==
    /\ initRuns > 0
    /\ input' = value
    /\ lastOp' = ChatOp
    /\ UNCHANGED <<messages, isInitializing, isTyping, chatSessionRef, sessions, turn,
                   now, initRuns>>
    /\ UNCHANGED <<apiKey, appVars, normVars, svcVars>>

RECURSIVE SumSent(_)
SumSent(ss) == IF ss = <<>> THEN 0 ELSE Head(ss).sent + SumSent(Tail(ss))

\* the sendMessageStream calls made so far
StreamCalls == SumSent(sessions)

\* the turns that have ended: every call but that of the turn in flight
TurnsEnded == StreamCalls - (IF turn.pc = "idle" THEN 0 ELSE 1)

\* handleSend with a guard that does not look at isTyping
SendAcceptedWhileBusy == Trim(input) # <<>> /\ chatSessionRef # 0

\* handleSend goes past its first line
SendAccepted == ~(Trim(input) = <<>> \/ chatSessionRef = 0 \/ isTyping)

\* handleSend up to its await: dropped at the first line, or the user message
\* is appended, the input cleared, isTyping set and sendMessageStream called
\* on the session of chatSessionRef.
handleSend(t) ==
    /\ initRuns > 0
    /\ IF SendAccepted
       THEN /\ TurnsEnded < MaxSends
            /\ t >= now
            /\ now' = t
            /\ messages' = Append(messages,
                                  [id |-> ToString(t), role |-> "user",
                                   text |-> Trim(input), isStreaming |-> "undefined"])
            /\ input' = <<>>
            /\ isTyping' = TRUE
            /\ sessions' = [sessions EXCEPT ![chatSessionRef].sent = @ + 1]
            /\ turn' = [NoTurn EXCEPT !.pc = "opening"]
            /\ lastOp' = Op("handleSend", "accepted", 0)
       ELSE /\ t = now
            /\ lastOp' = Op("handleSend", "dropped", 0)
            /\ UNCHANGED <<messages, input, isTyping, sessions, turn, now>>
    /\ UNCHANGED <<isInitializing, chatSessionRef, initRuns>>
    /\ UNCHANGED <<apiKey, appVars, normVars, svcVars>>

\* a catch that puts the failure text into the placeholder, appending nothing
ChatCatchIntoPlaceholder(t) ==
    /\ t >= now
    /\ now' = t
    /\ messages' = [i \in 1..Len(messages) |->
                       IF messages[i].id = turn.botMessageId
                       THEN [messages[i] EXCEPT !.text = ChatErrorText]
                       ELSE messages[i]]
    /\ isTyping' = FALSE
    /\ turn' = NoTurn

\* a catch with no finally after it: isTyping stays set
ChatCatchStaysBusy(t) ==
    /\ t >= now
    /\ now' = t
    /\ messages' = Append(messages,
                          [id |-> ToString(t), role |-> "model", text |-> ChatErrorText,
                           isStreaming |-> "undefined"])
    /\ isTyping' = isTyping
    /\ turn' = NoTurn

\* the catch and the finally of handleSend
ChatCatch(t) ==
    /\ t >= now
    /\ now' = t
    /\ messages' = Append(messages,
                          [id |-> ToString(t), role |-> "model", text |-> ChatErrorText,
                           isStreaming |-> "undefined"])
    /\ isTyping' = FALSE
    /\ turn' = NoTurn

\* sendMessageStream resolves with the stream: the placeholder is appended
StreamOpens(t) ==
    /\ turn.pc = "opening"
    /\ t >= now
    /\ now' = t
    /\ messages' = Append(messages,
                          [id |-> ToString(t + 1), role |-> "model", text |-> <<>>,
                           isStreaming |-> "true"])
    /\ turn' = [turn EXCEPT !.pc = "streaming", !.botMessageId = ToString(t + 1)]
    /\ lastOp' = ChatOp
    /\ UNCHANGED <<input, isInitializing, isTyping, chatSessionRef, sessions, initRuns>>
    /\ UNCHANGED <<apiKey, appVars, normVars, svcVars>>

\* sendMessageStream rejects
StreamRejects(t) ==
    /\ turn.pc = "opening"
    /\ ChatCatch(t)
    /\ lastOp' = Op("StreamRejects", "", 0)
    /\ UNCHANGED <<input, isInitializing, chatSessionRef, sessions, initRuns>>
    /\ UNCHANGED <<apiKey, appVars, normVars, svcVars>>

\* one fragment arrives: one turn of the for-await loop
ChunkArrives(text) ==
    /\ turn.pc = "streaming"
    /\ Len(turn.fullText \o text) <= MaxText
    /\ IF text # <<>>
       THEN /\ turn' = [turn EXCEPT !.fullText = turn.fullText \o text]
            /\ messages' = WithText(messages, turn.botMessageId, turn.fullText \o text)
       ELSE UNCHANGED <<turn, messages>>
    /\ lastOp' = Op("ChunkArrives", "", Len(text))
    /\ UNCHANGED <<input, isInitializing, isTyping, chatSessionRef, sessions, now,
                   initRuns>>
    /\ UNCHANGED <<apiKey, appVars, normVars, svcVars>>

\* the stream ends: the loop is left, the flag cleared, then the finally
StreamEnds ==
    /\ turn.pc = "streaming"
    /\ messages' = WithStreamingCleared(messages, turn.botMessageId)
    /\ isTyping' = FALSE
    /\ turn' = NoTurn
    /\ lastOp' = ChatOp
    /\ UNCHANGED <<input, isInitializing, chatSessionRef, sessions, now, initRuns>>
    /\ UNCHANGED <<apiKey, appVars, normVars, svcVars>>

\* the stream throws in the loop
StreamFails(t) ==
    /\ turn.pc = "streaming"
    /\ ChatCatch(t)
    /\ lastOp' = Op("StreamFails", "", 0)
    /\ UNCHANGED <<input, isInitializing, chatSessionRef, sessions, initRuns>>
    /\ UNCHANGED <<apiKey, appVars, normVars, svcVars>>

\* A ChatInterface is rendered in the COMPLETE state, which analyzeFiles
\* reaches only with the key.
ChatInit ==
    /\ apiKey = TRUE
    /\ files = <<[name |-> "a.csv", len |-> 10]>>
    /\ fileDataList = <<readFileAsText([name |-> "a.csv", len |-> 10], "load").value>>
    /\ appState = "COMPLETE"
    /\ analysisData = FullResult
    /\ errorMsg = Null
    /\ procs = [p \in 1..MaxAnalyses |-> IF p = 1 THEN [NoProc EXCEPT !.pc = "done"] ELSE NoProc]
    /\ genCalls = 1
    /\ ChatUnmounted
    /\ NormIdle
    /\ lastOp = Op("init", "", 0)

ChatNext ==
    \/ InitEffect
    \/ \E s \in 1..MaxInits, seed \in {"accepted", "failed"} : SeedSettles(s, seed)
    \/ \E value \in Inputs : SetInput(value)
    \/ \E t \in 1..MaxClock : handleSend(t)
    \/ \E t \in 1..MaxClock : StreamOpens(t)
    \/ \E t \in 1..MaxClock : StreamRejects(t)
    \/ \E text \in Chunks : ChunkArrives(text)
    \/ StreamEnds
    \/ \E t \in 1..MaxClock : StreamFails(t)

SpecChat == ChatInit /\ [][ChatNext]_vars

\* The chat with a model client whose promises settle: the promise of
\* sendMessageStream resolves or rejects, and a stream that was opened ends
\* or throws.
SpecChatLive ==
    /\ ChatInit
    /\ [][ChatNext]_vars
    /\ WF_vars(\E t \in 1..MaxClock : StreamOpens(t) \/ StreamRejects(t))
    /\ WF_vars(StreamEnds \/ \E t \in 1..MaxClock : StreamFails(t))

\* The workflow of App together with the seeds of the chats it mounts
MountNext ==
    \/ AppNext
    \/ \E s \in 1..(2 * MaxAnalyses), seed \in {"accepted", "failed"} : SeedSettles(s, seed)

SpecMount == AppInit /\ [][MountNext]_vars

(***************************************************************************)
(* Claims on the analysis workflow.                                        *)
(***************************************************************************)

\* C3: once resetAnalysis has run while a handleAnalyze invocation was
\* pending, no later step of that invocation (the end of its reads, its
\* result, its failure) changes appState, analysisData, fileDataList or
\* errorMsg.
C3_StaleResultIgnored ==
    [][\A p \in 1..MaxAnalyses :
          (procs[p].stale /\ procs'[p] # procs[p])
          => UNCHANGED <<appState, analysisData, fileDataList, errorMsg>>]_vars

\* C5: the workflow is never in the COMPLETE state with a result that lacks
\* one of the required fields filesDetected, combinedStrategicInsights,
\* recommendations.
C5_NoPartialResult ==
    appState = "COMPLETE"
    => /\ analysisData.t = "object"
       /\ RequiredFields \subseteq DOMAIN analysisData.v

\* C8: no two entries of the selected-file list have the same name.
C8_UniqueNames ==
    \A i, j \in 1..Len(files) : files[i].name = files[j].name => i = j

\* C9: when the read of a file fails, whatever the number of reads of the
\* batch that succeeded before, the invocation ends there: the workflow is in
\* the ERROR state, no analysis result is stored and no model call is issued;
\* and an invocation that waits for the model has every file's text, read in
\* full up to the truncation bound.
C9_FailFast ==
    /\ [][lastOp'.op = "ReaderSettles" /\ lastOp'.arg = "error"
          => /\ appState' = "ERROR"
             /\ UNCHANGED <<analysisData, genCalls>>
             /\ \E p \in 1..MaxAnalyses :
                   procs[p].pc = "reading" /\ procs'[p].pc = "done"]_vars
    /\ [](\A p \in 1..MaxAnalyses :
            procs[p].pc = "calling"
            => \A k \in 1..Len(procs[p].reads) :
                  /\ procs[p].reads[k].status = "fulfilled"
                  /\ procs[p].reads[k].value.content
                        = TruncatedContent(procs[p].files[k].len))

\* C9 witness: a read failed after another read of the same batch succeeded
C9_Witness ==
    /\ lastOp.op = "ReaderSettles"
    /\ lastOp.arg = "error"
    /\ lastOp.n >= 1
    /\ appState = "ERROR"

(***************************************************************************)
(* analyzeFiles on its own: the normalization of one parsed response, and  *)
(* the chart transform applied again to what it returned.                  *)
(***************************************************************************)
\* the sequences over S of at most n entries
SeqsUpTo(S, n) == UNION { [1..m -> S] : m \in 0..n }

\* {key, value} entries of a series: a metric with two values, and metrics
\* named like the category axis
SeriesEntries ==
    { Obj([key |-> Str(e[1]), value |-> Num(e[2])]) :
        e \in { <<"sales", 1>>, <<"sales", 2>>, <<"month", 3>>, <<"name", 4>> } }

\* {name, series} data points, and a point that has no series
Points ==
    { Obj([name |-> Str("Q1"), series |-> Arr(s)]) : s \in SeqsUpTo(SeriesEntries, MaxSeries) }
        \cup { Obj([name |-> Str("Q1")]) }

XAxisKeys == { "name", "month" }

\* the fields of a chart descriptor besides data
ChartFields(x) ==
    [title |-> Str("t"), type |-> Str("bar"), xAxisKey |-> Str(x),
     dataKeys |-> Arr(<<Str("sales")>>)]

\* chart descriptors: with data points, with no data, with data that is no
\* array
Charts ==
    { Obj(Put(ChartFields(x), "data", Arr(d))) :
        x \in XAxisKeys, d \in SeqsUpTo(Points, MaxPoints) }
        \cup { Obj(ChartFields(x)) : x \in XAxisKeys }
        \cup { Obj(Put(ChartFields("name"), "data", Str("none"))) }

\* parsed responses: one chart, or no charts field
Responses ==
    { Obj(Put(FullResult.v, "charts", Arr(<<c>>))) : c \in Charts } \cup { FullResult }

\* analyzeFiles from `const text = response.text` on, for a response text
\* that is the JSON document of normInput
Normalize ==
    /\ normOutput = <<>>
    /\ normOutput' = <<analyzeFilesResult([status |-> "fulfilled",
                                           value |-> [text |-> JsonOf(normInput)]])>>
    /\ UNCHANGED <<apiKey, appVars, chatVars, normInput, svcVars, lastOp>>

\* the chart transform of analyzeFiles, applied to the result before
NormalizeAgain ==
    /\ Len(normOutput) \in 1..(MaxPasses - 1)
    /\ normOutput[Len(normOutput)].ok
    /\ ~NormalizeThrows(normOutput[Len(normOutput)].value)
    /\ normOutput' = Append(normOutput,
                            [ok |-> TRUE,
                             value |-> FlattenCharts(normOutput[Len(normOutput)].value)])
    /\ UNCHANGED <<apiKey, appVars, chatVars, normInput, svcVars, lastOp>>

NormInit ==
    /\ apiKey = TRUE
    /\ ChatUnmounted
    /\ files = <<>>
    /\ fileDataList = <<>>
    /\ appState = "IDLE"
    /\ analysisData = Null
    /\ errorMsg = Null
    /\ procs = [p \in 1..MaxAnalyses |-> NoProc]
    /\ genCalls = 0
    /\ normInput \in Responses
    /\ normOutput = <<>>
    /\ svcFiles = <<>>
    /\ svcData = <<>>
    /\ svcAnalyze = Null
    /\ svcChat = Null
    /\ lastOp = Op("init", "", 0)

NormNext ==
    \/ Normalize
    \/ NormalizeAgain

SpecNorm == NormInit /\ [][NormNext]_vars

(***************************************************************************)
(* The services on their own: readFileAsText on files around the           *)
(* truncation bound, then analyzeFiles up to its model request, and        *)
(* initializeChat up to its seed, with and without the key.                *)
(***************************************************************************)
\* File objects with texts of no character, a few, one less than MAX_CHARS,
\* MAX_CHARS, one more and twice as many
ServiceFiles ==
    { [name |-> "a.csv", len |-> l] :
        l \in {0, 10, MAX_CHARS - 1, MAX_CHARS, MAX_CHARS + 1, 2 * MAX_CHARS} }
        \cup { [name |-> "b.csv", len |-> 10] }

\* every reader ends with the same event
ReadFiles(event) ==
    /\ svcData = <<>>
    /\ svcFiles # <<>>
    /\ svcData' = [k \in 1..Len(svcFiles) |-> readFileAsText(svcFiles[k], event)]
    /\ UNCHANGED <<apiKey, appVars, chatVars, normVars, svcFiles, svcAnalyze, svcChat, lastOp>>

\* analyzeFiles(files) on the files read, up to the generateContent call
CallAnalyzeFiles ==
    /\ svcAnalyze = Null
    /\ Len(svcData) = Len(svcFiles)
    /\ PromiseAll(svcData).status = "fulfilled"
    /\ IF analyzeFilesKeyCheck.ok
       THEN /\ svcAnalyze' = [ok |-> TRUE, contents |-> promptText(PromiseAll(svcData).value)]
            /\ genCalls' = genCalls + 1
       ELSE /\ svcAnalyze' = analyzeFilesKeyCheck
            /\ UNCHANGED genCalls
    /\ UNCHANGED <<apiKey, files, fileDataList, appState, analysisData, errorMsg, procs>>
    /\ UNCHANGED <<chatVars, normVars, svcFiles, svcData, svcChat, lastOp>>

\* initializeChat(files, analysis), up to the seed sendMessage
CallInitializeChat ==
    /\ svcChat = Null
    /\ svcChat' = initializeChatKeyCheck
    /\ IF initializeChatKeyCheck.ok
       THEN sessions' = Append(sessions, [seed |-> "pending", sent |-> 0])
       ELSE UNCHANGED sessions
    /\ UNCHANGED <<messages, input, isInitializing, isTyping, chatSessionRef, turn, now,
                   initRuns>>
    /\ UNCHANGED <<apiKey, appVars, normVars, svcFiles, svcData, svcAnalyze, lastOp>>

ServiceInit ==
    /\ apiKey \in BOOLEAN
    /\ ChatUnmounted
    /\ files = <<>>
    /\ fileDataList = <<>>
    /\ appState = "IDLE"
    /\ analysisData = Null
    /\ errorMsg = Null
    /\ procs = [p \in 1..MaxAnalyses |-> NoProc]
    /\ genCalls = 0
    /\ normInput = Null
    /\ normOutput = <<>>
    /\ svcFiles \in SeqsUpTo(ServiceFiles, MaxFiles)
    /\ svcData = <<>>
    /\ svcAnalyze = Null
    /\ svcChat = Null
    /\ lastOp = Op("init", "", 0)

ServiceNext ==
    \/ \E event \in ReaderEvents : ReadFiles(event)
    \/ CallAnalyzeFiles
    \/ CallInitializeChat

SpecService == ServiceInit /\ [][ServiceNext]_vars

(***************************************************************************)
(* Claims on the normalization.                                            *)
(***************************************************************************)
\* the charts of a result, and the data points of a chart
ChartsOf(result) == IF HasChartsArray(result) THEN Prop(result, "charts").v ELSE <<>>
DataOf(chart) == IF IsArray(Prop(chart, "data")) THEN Prop(chart, "data").v ELSE <<>>

\* the series entries of a data point of the response
SeriesOf(item) == IF IsArray(Prop(item, "series")) THEN Prop(item, "series").v ELSE <<>>

\* C6, as stated: applying the chart transform to its own output returns
\* that output.
C6_Idempotent ==
    \A n \in 2..Len(normOutput) : normOutput[n] = normOutput[n - 1]

\* C6, amended: applying the chart transform to its own output keeps the
\* fields of the result other than charts, the number of charts, each chart's
\* fields other than data and its number of data points, and returns every
\* data point as the one field named by xAxisKey, holding the `name` field of
\* the flat point (undefined when it has none): the other fields of the flat
\* point are dropped. The output is returned as it is only when every flat
\* point is that one field already.
C6_SecondPassKeepsAxisOnly ==
    \A n \in 2..Len(normOutput) :
        LET before == normOutput[n - 1].value
            after == normOutput[n].value
        IN  /\ normOutput[n].ok
            /\ DOMAIN after.v = DOMAIN before.v
            /\ \A f \in DOMAIN before.v \ {"charts"} : after.v[f] = before.v[f]
            /\ Len(ChartsOf(after)) = Len(ChartsOf(before))
            /\ \A c \in 1..Len(ChartsOf(before)) :
                   LET chart == ChartsOf(before)[c]
                       again == ChartsOf(after)[c]
                       x == Prop(chart, "xAxisKey").v
                   IN  /\ DOMAIN again.v = DOMAIN chart.v \cup {"data"}
                       /\ \A f \in DOMAIN chart.v \ {"data"} : again.v[f] = chart.v[f]
                       /\ Len(DataOf(again)) = Len(DataOf(chart))
                       /\ \A i \in 1..Len(DataOf(chart)) :
                              /\ DOMAIN DataOf(again)[i].v = {x}
                              /\ DataOf(again)[i].v[x] = Prop(DataOf(chart)[i], "name")
                              /\ (DataOf(again)[i] = DataOf(chart)[i])
                                     <=> /\ DOMAIN DataOf(chart)[i].v = {x}
                                         /\ DataOf(chart)[i].v[x] = Prop(DataOf(chart)[i], "name")

\* C6 witness: a second application dropped the sales field of a flat point
C6_Witness ==
    /\ Len(normOutput) >= 2
    /\ \E c \in 1..Len(ChartsOf(normOutput[1].value)) :
          \E i \in 1..Len(DataOf(ChartsOf(normOutput[1].value)[c])) :
              /\ "sales" \in DOMAIN DataOf(ChartsOf(normOutput[1].value)[c])[i].v
              /\ "sales" \notin DOMAIN DataOf(ChartsOf(normOutput[2].value)[c])[i].v

\* C7: in the result of the normalization, the record of every data point
\* {name, series} of the response holds the point's name under the chart's
\* xAxisKey, and besides that field one field for each key of the point's
\* series and no other, holding a value the series gives for that key.
C7_FlatRecord ==
    (Len(normOutput) >= 1 /\ normOutput[1].ok)
        => \A c \in 1..Len(ChartsOf(normInput)) :
               \A i \in 1..Len(DataOf(ChartsOf(normInput)[c])) :
                   LET chart == ChartsOf(normInput)[c]
                       item == DataOf(chart)[i]
                       flat == DataOf(ChartsOf(normOutput[1].value)[c])[i].v
                       x == Prop(chart, "xAxisKey").v
                       keys == { Prop(SeriesOf(item)[j], "key").v : j \in 1..Len(SeriesOf(item)) }
                   IN  /\ x \in DOMAIN flat
                       /\ flat[x] = Prop(item, "name")
                       /\ DOMAIN flat \ {x} = keys \ {x}
                       /\ \A k \in DOMAIN flat \ {x} :
                              \E j \in 1..Len(SeriesOf(item)) :
                                  /\ Prop(SeriesOf(item)[j], "key").v = k
                                  /\ flat[k] = Prop(SeriesOf(item)[j], "value")

\* C18: the result of analyzeFiles has the fields of the parsed response,
\* each but charts with the value it had; charts has as many entries, each
\* with the fields of the response's chart (and data), each but data with
\* the value it had; and a response without a charts array is the result.
C18_OnlyChartData ==
    (Len(normOutput) >= 1 /\ normOutput[1].ok)
        => LET result == normOutput[1].value
           IN  /\ DOMAIN result.v = DOMAIN normInput.v
               /\ \A f \in DOMAIN normInput.v \ {"charts"} : result.v[f] = normInput.v[f]
               /\ ~HasChartsArray(normInput) => result = normInput
               /\ Len(ChartsOf(result)) = Len(ChartsOf(normInput))
               /\ \A c \in 1..Len(ChartsOf(normInput)) :
                      /\ DOMAIN ChartsOf(result)[c].v
                            = DOMAIN ChartsOf(normInput)[c].v \cup {"data"}
                      /\ \A f \in DOMAIN ChartsOf(normInput)[c].v \ {"data"} :
                             ChartsOf(result)[c].v[f] = ChartsOf(normInput)[c].v[f]

\* C18 witness: a response with a chart of one data point with series was
\* normalized
C18_Witness ==
    /\ Len(normOutput) >= 1
    /\ normOutput[1].ok
    /\ \E c \in 1..Len(ChartsOf(normInput)) :
          \E i \in 1..Len(DataOf(ChartsOf(normInput)[c])) :
              /\ SeriesOf(DataOf(ChartsOf(normInput)[c])[i]) # <<>>
              /\ DataOf(ChartsOf(normOutput[1].value)[c])[i] # DataOf(ChartsOf(normInput)[c])[i]

(***************************************************************************)
(* Claims on the chat.                                                     *)
(***************************************************************************)
\* the places of the message list whose streaming flag is set
Streaming == { i \in 1..Len(messages) : messages[i].isStreaming = "true" }

\* the place of the placeholder of the turn in flight: the last message under
\* its id that is streaming, or 0 when the list holds none
Placeholder ==
    LET at == { i \in Streaming : messages[i].id = turn.botMessageId }
    IN  IF turn.pc # "streaming" \/ at = {}
        THEN 0
        ELSE CHOOSE i \in at : \A j \in at : j <= i

\* C1: at most one message has its streaming flag set, and no message has it
\* set once no turn is in flight.
C1_OneStreaming ==
    /\ Cardinality(Streaming) <= 1
    /\ ~isTyping => Streaming = {}

\* C2: a handleSend invoked while isTyping is set is dropped: it changes
\* neither the messages, the input, isTyping, the session nor the locals of
\* the turn in flight, and makes no sendMessageStream call.
C2_BusySendDropped ==
    [][(lastOp'.op = "handleSend" /\ isTyping)
       => /\ lastOp'.arg = "dropped"
          /\ UNCHANGED <<messages, input, isTyping, chatSessionRef, sessions, turn, now>>]_vars

\* C2 witness: a send of a non-empty text on a live session was dropped while
\* a turn was in flight
C2_Witness ==
    /\ lastOp = Op("handleSend", "dropped", 0)
    /\ isTyping
    /\ Trim(input) # <<>>
    /\ chatSessionRef # 0

\* C4: when the stream fails after it has opened, the messages before stay
\* as they are, the placeholder among them holding the text accumulated so
\* far; one model message with the failure text is appended; isTyping is
\* cleared and the session kept, so that a send of a non-empty input is
\* accepted.
C4_FailureScopedToTurn ==
    [][lastOp'.op = "StreamFails"
       => /\ Len(messages') = Len(messages) + 1
          /\ \A i \in 1..Len(messages) : messages'[i] = messages[i]
          /\ Placeholder # 0 => messages'[Placeholder].text = turn.fullText
          /\ messages'[Len(messages')].role = "model"
          /\ messages'[Len(messages')].text = ChatErrorText
          /\ messages'[Len(messages')].isStreaming = "undefined"
          /\ ~isTyping'
          /\ chatSessionRef' = chatSessionRef
          /\ Trim(input') # <<>> => SendAccepted']_vars

\* C4 witness: the stream failed after a fragment; the placeholder holds the
\* fragment and the failure message follows it
C4_Witness ==
    /\ lastOp.op = "StreamFails"
    /\ Len(messages) >= 2
    /\ messages[Len(messages) - 1].isStreaming = "true"
    /\ messages[Len(messages) - 1].text = <<"a">>
    /\ messages[Len(messages)].text = ChatErrorText
    /\ ~isTyping

\* C10: a session on which sendMessageStream was called, and the session
\* handleSend would call it on, had its seed message accepted.
C10_SeedBeforeUser ==
    /\ \A s \in 1..Len(sessions) : sessions[s].sent > 0 => sessions[s].seed = "accepted"
    /\ chatSessionRef # 0 => sessions[chatSessionRef].seed = "accepted"

\* C10 witness: a user message was sent on a session
C10_Witness ==
    \E s \in 1..Len(sessions) : sessions[s].sent > 0 /\ sessions[s].seed = "accepted"

(***************************************************************************)
(* Claims on the chat a result is shown with.                              *)
(***************************************************************************)
\* C11: once a session is stored in chatSessionRef, the first entry of the
\* message list is the welcome message made by init (id 'welcome', role
\* model, the fixed text), in every later state of the mounted chat.
C11_WelcomeFirst ==
    chatSessionRef # 0
        => /\ messages # <<>>
           /\ messages[1].id = "welcome"
           /\ messages[1].role = "model"
           /\ messages[1].text = WelcomeText

ContentLength(content) ==
    content.chars + (IF content.marker THEN Len(TruncationMarker) ELSE 0)

C14_NoRequestWithoutKey ==
    ~apiKey
        => /\ genCalls = 0
           /\ sessions = <<>>
           /\ svcAnalyze # Null
                 => /\ ~svcAnalyze.ok
                    /\ svcAnalyze.error.message
                          = "API Key is missing. Please set the API_KEY environment variable."
           /\ svcChat # Null
                 => /\ ~svcChat.ok
                    /\ svcChat.error.message = "API Key is missing."

\* C14 witness: both services were called without the key
C14_Witness ==
    /\ ~apiKey
    /\ svcAnalyze # Null
    /\ svcChat # Null

\* C17: after its heading, the contents analyzeFiles hands to generateContent
\* are, for the i-th file in the order given, the delimiter line of number i
\* and the file's name, then the file's content as read (the whole text for
\* a file of at most 150000 characters), then a blank line; and after the
\* last file the closing directive.
C17_PromptLayout ==
    (svcAnalyze # Null /\ svcAnalyze.ok)
        => LET prompt == svcAnalyze.contents
               n == Len(svcFiles)
           IN  /\ Len(prompt) = 3 * n + 2
               /\ prompt[1].kind = "text"
               /\ \A i \in 1..n :
                      /\ prompt[3 * i - 1] =
                            [kind |-> "delimiter", number |-> i, name |-> svcFiles[i].name]
                      /\ prompt[3 * i].kind = "content"
                      /\ prompt[3 * i].v = svcData[i].value.content
                      /\ svcFiles[i].len <= 150000
                            => prompt[3 * i].v = [chars |-> svcFiles[i].len, marker |-> FALSE]
                      /\ prompt[3 * i + 1] = [kind |-> "text", v |-> "\n\n"]
               /\ prompt[3 * n + 2] =
                     [kind |-> "text",
                      v |-> "\nProvide a detailed analysis following the ConTima structure."]

\* C17 witness: a request was built from two files, the second of them cut
C17_Witness ==
    /\ svcAnalyze # Null
    /\ svcAnalyze.ok
    /\ Len(svcFiles) = 2
    /\ svcFiles[1].len = 150000
    /\ svcFiles[2].len = 150001

(***************************************************************************)
(* Claims on the failures of the workflow.                                 *)
(***************************************************************************)
\* invocation p of handleAnalyze ends in this step
Ends(p) == procs[p].pc \in {"reading", "calling"} /\ procs'[p].pc = "done"

\* C15: a step in which a read fails, analyzeFiles throws for the missing
\* key, or the model call fails, sets ERROR and the failure's message (the
\* fallback text for the reader's event, which has none) and issues no
\* model call; a model call is issued only by an invocation that goes from
\* its reads to its call; and ERROR is left only by a handler the user
\* starts.
C15_FailureToError ==
    [][/\ (lastOp'.op = "ReaderSettles" /\ lastOp'.arg = "error")
           => /\ appState' = "ERROR"
              /\ errorMsg' = Str("An unexpected error occurred during analysis.")
              /\ genCalls' = genCalls
       /\ (lastOp'.op = "ReaderSettles" /\ lastOp'.arg = "load"
              /\ \E p \in 1..MaxAnalyses : Ends(p))
           => /\ appState' = "ERROR"
              /\ errorMsg' =
                    Str("API Key is missing. Please set the API_KEY environment variable.")
              /\ genCalls' = genCalls
       /\ (lastOp'.op = "ModelSettles" /\ lastOp'.arg # "")
           => /\ appState' = "ERROR"
              /\ errorMsg' = Str(lastOp'.arg)
              /\ genCalls' = genCalls
       /\ genCalls' # genCalls
           => /\ genCalls' = genCalls + 1
              /\ \E p \in 1..MaxAnalyses :
                     procs[p].pc = "reading" /\ procs'[p].pc = "calling"
       /\ (appState = "ERROR" /\ appState' # "ERROR") => lastOp' = UserOp]_vars

\* C16: the step that shows an analysis result runs init once, which calls
\* initializeChat once and sends one seed; and no other step runs init, so
\* that a result shown has one chat session.
C16_OneSessionPerResult ==
    [][/\ (lastOp'.op = "ModelSettles" /\ lastOp'.arg = "")
           => /\ initRuns' = (IF ChatMounted THEN initRuns ELSE 0) + 1
              /\ Len(sessions') = (IF ChatMounted THEN Len(sessions) ELSE 0) + 1
              /\ sessions'[Len(sessions')].seed = "pending"
       /\ (initRuns' > initRuns \/ Len(sessions') > Len(sessions))
           => (lastOp'.op = "ModelSettles" /\ lastOp'.arg = "")]_vars

(***************************************************************************)
(* Claims on the identifiers and the end of a chat turn.                   *)
(***************************************************************************)
\* C19: no two messages of the list have the same id, so that an update by
\* the placeholder's id changes one message.
C19_DistinctIds ==
    \A i, j \in 1..Len(messages) : messages[i].id = messages[j].id => i = j

\* C20: whenever isTyping is set, which an accepted handleSend does, it is
\* cleared later and the turn is over, the model's promise and stream
\* settling.
C20_TurnEnds == isTyping ~> (~isTyping /\ turn = NoTurn)

\* C20 witness: a send was accepted, its stream failed after it had opened,
\* and isTyping is cleared
C20_Witness ==
    /\ StreamCalls > 0
    /\ lastOp.op = "StreamFails"
    /\ ~isTyping
    /\ turn = NoTurn

====
